---- MODULE Spec2Model ----
(***************************************************************************)
(* Model of serum's scoped dependency-resolution engine                    *)
(* (src/serum/_context.py together with the binder of src/serum/_inject.py *)
(* and src/serum/_injected_dependency.py).                                 *)
(*                                                                         *)
(* Context objects are shared between threads; the "current context" cell  *)
(* and every _ContextState are threading.local, so a state object is       *)
(* modelled as one view per thread.  Each handler (__enter__, __exit__,    *)
(* mock, provide) is one action that performs the whole handler, nested    *)
(* constructions included.                                                 *)
(***************************************************************************)
EXTENDS Integers, Sequences, FiniteSets, TLC

\* ------------------------------------------------------------------ bounds
\* objects (instances and stand-ins) allocated in one behaviour
MaxId == 2
\* depth of nested `with` blocks on one thread
MaxNest == 2
\* depth of nested provide calls at which the interpreter raises RecursionError
RecursionLimit == 3
\* objects allocated in one behaviour of the program with inheriting classes
MaxObjects == 4
\* parameters after self of a declared __init__
MaxParams == 2

\* ------------------------------------------------------- the program's types
None == "None"

Threads == {"t1", "t2"}
NamedCtx == {"X", "Y"}
Eph == {"E1", "E2", "E3", "E4"}
\* the Context object the program keeps the result of a | b in
Unions == {"U"}
Ctx == NamedCtx \cup Eph \cup Unions
Owners == {"o1", "o2"}

\* capability types of the program under test: an abstract Base with the
\* chain Base <- Concrete <- Sub <- Single (singleton) and the sibling Alt,
\* two types that require each other through a bound field, and the
\* singleton AbsSingle that, like Base, leaves an abstract method open.
Types == {"Base", "Concrete", "Alt", "Sub", "Single", "CycA", "CycB", "AbsSingle"}

Mro(T) ==
    CASE T = "Base"     -> <<"Base", "object">>
      [] T = "Concrete" -> <<"Concrete", "Base", "object">>
      [] T = "Alt"      -> <<"Alt", "Base", "object">>
      [] T = "Sub"      -> <<"Sub", "Concrete", "Base", "object">>
      [] T = "Single"   -> <<"Single", "Sub", "Concrete", "Base", "object">>
      [] T = "CycA"     -> <<"CycA", "object">>
      [] T = "CycB"     -> <<"CycB", "object">>
      [] T = "AbsSingle" -> <<"AbsSingle", "object">>
      [] T = "Plain"    -> <<"Plain", "object">>

\* a class that is not decorated as a dependency (no __dependency__ marker)
PlainTypes == {"Plain"}

\* types whose construction raises TypeError (abstract methods left)
AbstractTypes == {"Base", "AbsSingle"}

\* hasattr(st, '__singleton__'): the marker is inherited by subclasses
is_singleton(T) == \E i \in 1..Len(Mro(T)) : Mro(T)[i] \in {"Single", "AbsSingle"}

\* cls.__dependencies__: the bound fields a class declares itself
Dependencies(T) ==
    CASE T = "CycA"      -> <<[name |-> "b", dependency |-> "CycB"]>>
      [] T = "CycB"      -> <<[name |-> "a", dependency |-> "CycA"]>>
      [] T = "Dependent" -> <<[name |-> "a", dependency |-> "CycA"]>>
      [] T = "Partial"   -> <<[name |-> "a", dependency |-> "Base"],
                              [name |-> "b", dependency |-> "Concrete"]>>
      [] OTHER           -> <<>>

\* the bound fields the class's own __init__ body reads (self.b / self.a)
InitReads(T) ==
    CASE T = "CycA" -> <<"b">>
      [] T = "CycB" -> <<"a">>
      [] OTHER      -> <<>>

\* the registries the program constructs Context X with, each in the order
\* in which the set iterates (a registration order and its reverse);
\* Context Y registers Alt
Reverse(q) == [i \in 1..Len(q) |-> q[Len(q) + 1 - i]]
Registrations ==
    { <<"Concrete", "Alt", "Sub">>,
      <<"Concrete", "Sub", "Single">> }
Registries ==
    Registrations \cup {Reverse(q) : q \in Registrations}
        \cup {<<"Concrete", "Alt">>, <<"CycA", "CycB">>}
YRegistry == <<"Alt">>

\* the thread whose calls are observed
Callers == {"t1"}

\* inject-decorated classes the program instantiates itself
UserClasses == {"Dependent"}

FieldNames == {"a", "b"}

\* inject-decorated classes of a program that works with bound fields:
\* Partial declares a field of the abstract Base next to one of Concrete
BoundClasses == {"Dependent", "Partial"}

\* the types the program passes to mock and to provide
MockTargets == {"Concrete", "Single"}
ProvideTargets == {"Base", "Concrete", "Sub", "Single", "CycA"}

\* the names the program asks for, and the named dependencies (keyword
\* arguments) Context X and Context Y are constructed with
Names == {"key", "other"}
NamedDependencies(c) ==
    CASE c = "X" -> [n \in {"key"} |-> "value"]
      [] c = "Y" -> [n \in {"key"} |-> "v2"]
      [] OTHER   -> [n \in {} |-> None]

\* ------------------------------------------------------------------ values
NoFields == [n \in {} |-> None]

Instance(T, id, fields) ==
    [kind |-> "inst", type |-> T, id |-> id, fields |-> fields, cause |-> None]

\* create_autospec(dependency, instance=True): isinstance(mock, dependency)
Autospec(target, id) ==
    [kind |-> "mock", type |-> target, id |-> id, fields |-> NoFields, cause |-> None]

Error(name, cause) ==
    [kind |-> "error", type |-> name, id |-> 0, fields |-> NoFields, cause |-> cause]

\* a value bound to a name
Bound(v) ==
    [kind |-> "value", type |-> v, id |-> 0, fields |-> NoFields, cause |-> None]

NoValue == [kind |-> "none", type |-> None, id |-> 0, fields |-> NoFields, cause |-> None]

issubclass(c, component) == \E i \in 1..Len(Mro(c)) : Mro(c)[i] = component

\* isinstance(v, T) for a value the resolver returned
IsInstance(v, T) ==
    /\ v.kind \in {"inst", "mock"}
    /\ issubclass(v.type, T)

Put(f, k, v) == [x \in DOMAIN f \cup {k} |-> IF x = k THEN v ELSE f[x]]

\* ------------------------------------------------------------ _ContextState
EmptyState == [pending |-> {}, mocks |-> NoFields, singletons |-> NoFields]

deepcopy(s) ==
    [pending |-> s.pending, mocks |-> s.mocks, singletons |-> s.mocks]

\* ------------------------------------------------------------ find_subtype
\* mro.index(component), 0-based
mro_distance(subtype, component) ==
    (CHOOSE i \in 1..Len(Mro(subtype)) : Mro(subtype)[i] = component) - 1

\* the iteration orders a registry of the same types can have
Range(q) == {q[i] : i \in 1..Len(q)}
Orders(reg) ==
    {o \in [1..Cardinality(reg) -> reg] : \A i, j \in 1..Cardinality(reg) : o[i] = o[j] => i = j}

Subtypes(order, component) ==
    SelectSeq(order, LAMBDA c : issubclass(c, component))

\* max(subtypes, key=mro_distance): the first element of greatest key
RECURSIVE MaxBy(_, _, _, _)
MaxBy(subtypes, component, i, best) ==
    IF i > Len(subtypes) THEN best
    ELSE IF mro_distance(subtypes[i], component) > mro_distance(best, component)
         THEN MaxBy(subtypes, component, i + 1, subtypes[i])
         ELSE MaxBy(subtypes, component, i + 1, best)

\* variants of find_subtype: without max, and without the ambiguity check
find_subtype_first(order, component) ==
    LET subtypes == Subtypes(order, component)
        count(d) == Cardinality({i \in 1..Len(subtypes) :
                                   mro_distance(subtypes[i], component) = d})
    IN  IF \E i \in 1..Len(subtypes) : count(mro_distance(subtypes[i], component)) > 1
        THEN [ambiguous |-> TRUE, subtype |-> None]
        ELSE IF subtypes = <<>>
             THEN [ambiguous |-> FALSE, subtype |-> None]
             ELSE [ambiguous |-> FALSE, subtype |-> subtypes[1]]

find_subtype_unchecked(order, component) ==
    LET subtypes == Subtypes(order, component)
    IN  IF subtypes = <<>>
        THEN [ambiguous |-> FALSE, subtype |-> None]
        ELSE [ambiguous |-> FALSE,
              subtype |-> MaxBy(subtypes, component, 2, subtypes[1])]

find_subtype(order, component) ==
    LET subtypes == Subtypes(order, component)
        count(d) == Cardinality({i \in 1..Len(subtypes) :
                                   mro_distance(subtypes[i], component) = d})
    IN  IF \E i \in 1..Len(subtypes) : count(mro_distance(subtypes[i], component)) > 1
        THEN [ambiguous |-> TRUE, subtype |-> None]
        ELSE IF subtypes = <<>>
             THEN [ambiguous |-> FALSE, subtype |-> None]
             ELSE [ambiguous |-> FALSE,
                   subtype |-> MaxBy(subtypes, component, 2, subtypes[1])]

\* ------------------------------------------------------------------ provide
\* A call returns [raised, val, s, n, impl]: the value returned or the
\* exception raised, the context state and the object counter after the call,
\* and the implementation type handed to instantiate (None when none was).
Raise(e, s, n, impl) ==
    [raised |-> TRUE, val |-> e, s |-> s, n |-> n, impl |-> impl]
Return(v, s, n, impl) ==
    [raised |-> FALSE, val |-> v, s |-> s, n |-> n, impl |-> impl]

\* the value of a singleton set: binds the result of a nested call once
The(S) == CHOOSE x \in S : TRUE

RECURSIVE ContextProvide(_, _, _, _, _)
RECURSIVE instantiate(_, _, _, _, _)
RECURSIVE construct(_, _, _, _, _)
RECURSIVE set_dependencies(_, _, _, _, _, _, _)

\* __decorate_init: resolve every declared field in turn; __set_dependency
\* stores what provide returned, or the exception it raised, as the value
set_dependencies(env, s, T, n, d, i, fields) ==
    IF i > Len(Dependencies(T)) THEN [s |-> s, n |-> n, fields |-> fields]
    ELSE LET dep == Dependencies(T)[i]
         IN  The({set_dependencies(env, r.s, T, r.n, d, i + 1,
                                   Put(fields, dep.name, r.val)) :
                    r \in {ContextProvide(env, s, dep.dependency, n, d + 1)}})

\* variant of __get__ that resolves the field's type again instead of
\* returning what is stored
get_resolved(fields, name) ==
    [raised |-> FALSE, val |-> Instance(fields[name].type, 0, NoFields)]

\* Dependency.__get__: reading a field whose stored value is an exception
\* raises it
get(fields, name) ==
    [raised |-> fields[name].kind = "error", val |-> fields[name]]

\* the first exception raised by the reads in the class's own __init__ body
FirstError(fields, reads) ==
    LET bad == {i \in 1..Len(reads) : get(fields, reads[i]).raised}
    IN  IF bad = {} THEN NoValue
        ELSE fields[reads[CHOOSE i \in bad : \A j \in bad : i <= j]]

\* variant of construct that raises the first error a field resolution left
construct_eager(env, s, T, n, d) ==
    IF T \in AbstractTypes THEN Raise(Error("TypeError", None), s, n, T)
    ELSE The({LET names == [i \in 1..Len(Dependencies(T)) |-> Dependencies(T)[i].name]
                  e == FirstError(w.fields, names)
              IN  IF e.kind = "error" THEN Raise(e, w.s, w.n, T)
                  ELSE Return(Instance(T, w.n, w.fields), w.s, w.n + 1, T) :
                w \in {set_dependencies(env, s, T, n, d, 1, NoFields)}})

\* component_type(): object creation followed by the decorated __init__
construct(env, s, T, n, d) ==
    IF T \in AbstractTypes THEN Raise(Error("TypeError", None), s, n, T)
    ELSE The({LET e == FirstError(w.fields, InitReads(T))
              IN  IF e.kind = "error" THEN Raise(e, w.s, w.n, T)
                  ELSE Return(Instance(T, w.n, w.fields), w.s, w.n + 1, T) :
                w \in {set_dependencies(env, s, T, n, d, 1, NoFields)}})

\* variant of singleton that caches whatever the construction ended with
singleton_caches_failure(env, s, T, n, d) ==
    IF T \in DOMAIN s.singletons THEN Return(s.singletons[T], s, n, T)
    ELSE The({[r EXCEPT !.s = [r.s EXCEPT !.singletons = Put(r.s.singletons, T, r.val)]] :
                r \in {construct(env, s, T, n, d)}})

\* Context.provide.singleton
singleton(env, s, T, n, d) ==
    IF T \in DOMAIN s.singletons THEN Return(s.singletons[T], s, n, T)
    ELSE The({IF r.raised THEN r
              ELSE [r EXCEPT !.s = [r.s EXCEPT !.singletons = Put(r.s.singletons, T, r.val)]] :
                r \in {construct(env, s, T, n, d)}})

\* Context.provide.instance
instance(env, s, T, n, d) == construct(env, s, T, n, d)

\* variant of instantiate that lets every exception through as it is
instantiate_unwrapped(env, s, T, n, d) ==
    IF T \in s.pending
    THEN Raise(Error("CircularDependency", None), s, n, T)
    ELSE LET s1 == [s EXCEPT !.pending = s.pending \cup {T}]
         IN  The({[r EXCEPT !.s = [r.s EXCEPT !.pending = r.s.pending \ {T}],
                            !.impl = T] :
                    r \in {IF is_singleton(T) THEN singleton(env, s1, T, n, d)
                                              ELSE instance(env, s1, T, n, d)}})

\* variant of instantiate without the cycle guard
instantiate_unguarded(env, s, T, n, d) ==
    LET s1 == [s EXCEPT !.pending = s.pending \cup {T}]
    IN  The({LET s2 == [r.s EXCEPT !.pending = r.s.pending \ {T}]
             IN  IF r.raised /\ r.val.type # "CircularDependency"
                 THEN Raise(Error("InjectionError", r.val.type), s2, r.n, T)
                 ELSE [r EXCEPT !.s = s2, !.impl = T] :
               r \in {IF is_singleton(T) THEN singleton(env, s1, T, n, d)
                                         ELSE instance(env, s1, T, n, d)}})

\* variant of instantiate without the finally clause: a type whose
\* construction raised stays in pending
instantiate_unrestored(env, s, T, n, d) ==
    IF T \in s.pending
    THEN Raise(Error("CircularDependency", None), s, n, T)
    ELSE LET s1 == [s EXCEPT !.pending = s.pending \cup {T}]
         IN  The({LET s2 == [r.s EXCEPT !.pending = r.s.pending \ {T}]
                  IN  IF r.raised /\ r.val.type # "CircularDependency"
                      THEN Raise(Error("InjectionError", r.val.type), r.s, r.n, T)
                      ELSE IF r.raised THEN [r EXCEPT !.impl = T]
                           ELSE [r EXCEPT !.s = s2, !.impl = T] :
                    r \in {IF is_singleton(T) THEN singleton(env, s1, T, n, d)
                                              ELSE instance(env, s1, T, n, d)}})

\* Context.provide.instantiate
instantiate(env, s, T, n, d) ==
    IF T \in s.pending
    THEN Raise(Error("CircularDependency", None), s, n, T)
    ELSE LET s1 == [s EXCEPT !.pending = s.pending \cup {T}]
         IN  The({LET s2 == [r.s EXCEPT !.pending = r.s.pending \ {T}]
                  IN  IF r.raised /\ r.val.type # "CircularDependency"
                      THEN Raise(Error("InjectionError", r.val.type), s2, r.n, T)
                      ELSE [r EXCEPT !.s = s2, !.impl = T] :
                    r \in {IF is_singleton(T) THEN singleton(env, s1, T, n, d)
                                              ELSE instance(env, s1, T, n, d)}})

\* variant of Context.provide that fails when no subtype is registered
ContextProvide_unregistered(env, s, dependency, n, d) ==
    IF d > RecursionLimit
    THEN Raise(Error("RecursionError", None), s, n, None)
    ELSE LET s0 == IF env.active THEN s ELSE EmptyState
             order == IF env.active THEN env.order ELSE <<>>
             keep(r) == IF env.active THEN r ELSE [r EXCEPT !.s = s]
         IN  IF dependency \in DOMAIN s0.mocks
             THEN keep(Return(s0.mocks[dependency], s0, n, None))
             ELSE LET f == find_subtype(order, dependency)
                  IN  IF f.ambiguous
                      THEN keep(Raise(Error("AmbiguousDependencies", None), s0, n, None))
                      ELSE IF f.subtype = None
                           THEN keep(Raise(Error("UnregisteredDependency", None), s0, n, None))
                           ELSE keep(instantiate(env, s0, f.subtype, n, d))

\* Context.provide for a type target.  env.active says whether the thread has
\* a current context: without one every current_context() call builds a new
\* empty Context, so the call works on an empty state and registry and
\* leaves nothing behind.  env.order is the registry's iteration order.
ContextProvide(env, s, dependency, n, d) ==
    IF d > RecursionLimit
    THEN Raise(Error("RecursionError", None), s, n, None)
    ELSE LET s0 == IF env.active THEN s ELSE EmptyState
             order == IF env.active THEN env.order ELSE <<>>
             keep(r) == IF env.active THEN r ELSE [r EXCEPT !.s = s]
         IN  IF dependency \in DOMAIN s0.mocks
             THEN keep(Return(s0.mocks[dependency], s0, n, None))
             ELSE LET f == find_subtype(order, dependency)
                  IN  IF f.ambiguous
                      THEN keep(Raise(Error("AmbiguousDependencies", None), s0, n, None))
                      ELSE IF f.subtype = None
                           THEN keep(instantiate(env, s0, dependency, n, d))
                           ELSE keep(instantiate(env, s0, f.subtype, n, d))

\* ------------------------------------------------------------------- state
VARIABLES
    registry,      \* Context.__registry of every Context object
    state,         \* Context.__state: the state object's view in each thread
    old_current,   \* Context.__old_current (an attribute shared by all threads)
    current_env,   \* _LocalStorage.current_env of each thread
    nextId,        \* identity of the next object created
    stack,         \* the `with` blocks each thread is inside, innermost last
    last,          \* the most recent call and its outcome
    held,          \* the object the program built itself, and the context it was built in
    staleMocks,    \* stand-ins installed inside a `with` block that has ended
    exitedSingletons \* singleton instances provided inside a block that has ended

vars == <<registry, state, old_current, current_env, nextId, stack, last, held,
          staleMocks, exitedSingletons>>

NotHeld == [val |-> NoValue, ctx |-> None]

NoCall ==
    [op |-> "none", t |-> None, ctx |-> None, target |-> None, owner |-> None,
     mocked |-> FALSE, raised |-> FALSE, val |-> NoValue,
     impl |-> None, built |-> 0, supplied |-> NoFields, asked |-> {}]

\* a Context() built by current_context() lives as long as something refers
\* to it; an identity nothing refers to is free and its state is empty
Referenced(cur, old) ==
    {cur[t] : t \in Threads} \cup {old[c] : c \in NamedCtx \cup Unions}

FreeContext == CHOOSE e \in Eph : e \notin Referenced(current_env, old_current)

Release(st, cur, old) ==
    [c \in Ctx |-> IF c \in Eph /\ c \notin Referenced(cur, old)
                   THEN [t \in Threads |-> EmptyState]
                   ELSE st[c]]

Init ==
    /\ \E x \in Registries :
          registry = [c \in Ctx |-> IF c = "X" THEN x ELSE IF c = "Y" THEN YRegistry ELSE <<>>]
    /\ state = [c \in Ctx |-> [t \in Threads |-> EmptyState]]
    /\ old_current = [c \in Ctx |-> None]
    /\ current_env = [t \in Threads |-> None]
    /\ nextId = 1
    /\ stack = [t \in Threads |-> <<>>]
    /\ last = NoCall
    /\ held = NotHeld
    /\ staleMocks = {}
    /\ exitedSingletons = {}

Top(t) == stack[t][Len(stack[t])]

\* Context.__enter__
Enter(t, c) ==
    /\ Len(stack[t]) < MaxNest
    /\ LET active == current_env[t] # None
           old == IF active THEN current_env[t] ELSE FreeContext
           old_state == deepcopy(IF active THEN state[old][t] ELSE EmptyState)
           cur == [current_env EXCEPT ![t] = c]
           olds == [old_current EXCEPT ![c] = old]
       IN  /\ old_current' = olds
           /\ current_env' = cur
           /\ state' = Release([state EXCEPT ![c] =
                                  [u \in Threads |-> IF u = t THEN old_state
                                                              ELSE EmptyState]],
                               cur, olds)
    /\ LET again == \E i \in 1..Len(stack[t]) : stack[t][i].ctx = c
           open == [i \in 1..Len(stack[t]) |->
                      [stack[t][i] EXCEPT !.again = @ \/ again]]
       IN  stack' = [stack EXCEPT ![t] =
                       Append(open, [ctx |-> c, single |-> {}, mocks |-> NoFields,
                                     again |-> again,
                                     outer |-> IF current_env[t] # None
                                               THEN state[current_env[t]][t]
                                               ELSE EmptyState])]
    /\ last' = NoCall
    /\ UNCHANGED <<registry, nextId, held, staleMocks, exitedSingletons>>

\* variants of the reset that leave one table of the state behind
reset_keeps_singletons(st, c, t) ==
    [st EXCEPT ![c][t] = [EmptyState EXCEPT !.singletons = st[c][t].singletons]]

reset_keeps_mocks(st, c, t) ==
    [st EXCEPT ![c][t] = [EmptyState EXCEPT !.mocks = st[c][t].mocks]]

\* self.__state.__init__() in __exit__: the state object's view in the
\* exiting thread starts over
reset(st, c, t) == [st EXCEPT ![c][t] = EmptyState]

\* variant of the restore that always leaves the thread without a context
restored_none(old, c) == None

\* _set_current_env(self.__old_current) in __exit__
restored(old, c) == old[c]

\* Context.__exit__ at the end of the innermost `with` block of thread t
Exit(t) ==
    /\ stack[t] # <<>>
    /\ LET c == Top(t).ctx
           cur == [current_env EXCEPT ![t] = restored(old_current, c)]
           olds == [old_current EXCEPT ![c] = None]
       IN  /\ current_env' = cur
           /\ old_current' = olds
           /\ state' = Release(reset(state, c, t), cur, olds)
           /\ last' = NoCall
           /\ staleMocks' = staleMocks \cup
                  {[target |-> k, id |-> Top(t).mocks[k]] : k \in DOMAIN Top(t).mocks}
           /\ exitedSingletons' = exitedSingletons \cup
                  {[ctx |-> c, id |-> i] : i \in Top(t).single}
    /\ stack' = [stack EXCEPT ![t] = SubSeq(@, 1, Len(@) - 1)]
    /\ UNCHANGED <<registry, nextId, held>>

\* Context.mock for a type target
Mock(t, dependency) ==
    /\ nextId <= MaxId
    /\ LET m == Autospec(dependency, nextId)
           ce == current_env[t]
       IN  /\ state' = IF ce = None THEN state
                       ELSE [state EXCEPT ![ce][t].mocks = Put(@, dependency, m)]
           /\ last' = [NoCall EXCEPT !.op = "mock", !.t = t, !.ctx = ce,
                                     !.target = dependency, !.val = m]
           /\ stack' = IF stack[t] = <<>> THEN stack
                       ELSE [stack EXCEPT ![t][Len(stack[t])].mocks = Put(@, dependency, nextId)]
    /\ nextId' = nextId + 1
    /\ UNCHANGED <<registry, old_current, current_env, held, staleMocks, exitedSingletons>>

\* the identity of a constructed singleton instance a call returned
Singletons(r) ==
    IF ~r.raised /\ r.val.kind = "inst" /\ is_singleton(r.val.type) THEN {r.val.id} ELSE {}

\* Context.provide(DependencyConfiguration(dependency, name, owner))
Provide(t, dependency, owner) ==
    LET ce == current_env[t]
        active == ce # None
        order == IF active THEN registry[ce] ELSE <<>>
        s == IF active THEN state[ce][t] ELSE EmptyState
    IN    \E r \in {ContextProvide([active |-> active, order |-> order], s,
                                    dependency, nextId, 1)} :
              /\ r.n <= MaxId + 1
              /\ state' = IF active THEN [state EXCEPT ![ce][t] = r.s] ELSE state
              /\ nextId' = r.n
              /\ last' = [op |-> "provide", t |-> t, ctx |-> ce, target |-> dependency,
                          owner |-> owner,
                          mocked |-> dependency \in DOMAIN s.mocks,
                          raised |-> r.raised, val |-> r.val, impl |-> r.impl,
                          built |-> r.n - nextId, supplied |-> NoFields, asked |-> {}]
              /\ stack' = IF stack[t] = <<>> THEN stack
                          ELSE [stack EXCEPT ![t][Len(stack[t])].single =
                                  @ \cup Singletons(r)]
              /\ UNCHANGED <<registry, old_current, current_env, held, staleMocks,
                             exitedSingletons>>

\* cls(): the program instantiates an inject-decorated class of its own;
\* the decorated __init__ resolves the declared fields with owner = self
Construct(t, cls) ==
    LET ce == current_env[t]
        active == ce # None
        s == IF active THEN state[ce][t] ELSE EmptyState
    IN  \E r \in {construct([active |-> active,
                              order |-> IF active THEN registry[ce] ELSE <<>>],
                             s, cls, nextId, 0)} :
        /\ r.n <= MaxId + 1
        /\ state' = IF active THEN [state EXCEPT ![ce][t] = r.s] ELSE state
        /\ nextId' = r.n
        /\ held' = IF r.raised THEN held ELSE [val |-> r.val, ctx |-> ce]
        /\ last' = [NoCall EXCEPT !.op = "construct", !.t = t, !.ctx = ce, !.target = cls,
                                  !.raised = r.raised,
                                  !.val = IF r.raised THEN r.val ELSE NoValue,
                                  !.built = r.n - nextId]
        /\ UNCHANGED <<registry, old_current, current_env, stack, staleMocks,
                       exitedSingletons>>

\* obj.name: Dependency.__get__ on the object the program holds
Read(t, name) ==
    /\ held.val.kind = "inst"
    /\ name \in DOMAIN held.val.fields
    /\ LET r == get(held.val.fields, name)
       IN  last' = [NoCall EXCEPT !.op = "read", !.t = t, !.ctx = current_env[t],
                                 !.target = name, !.raised = r.raised, !.val = r.val]
    /\ UNCHANGED <<registry, state, old_current, current_env, nextId, stack, held,
                   staleMocks, exitedSingletons>>

\* variant of __set__ that stores the value
set_stores(fields, name, value) ==
    [raised |-> FALSE, val |-> NoValue, fields |-> Put(fields, name, value)]

\* Dependency.__set__: always raises, the stored value stays
set(fields, name, value) ==
    [raised |-> TRUE, val |-> Error("AttributeError", None), fields |-> fields]

\* obj.name = value on the object the program holds
Assign(t, name) ==
    /\ held.val.kind = "inst"
    /\ name \in DOMAIN held.val.fields
    /\ \E r \in {set(held.val.fields, name, Bound("test"))} :
          /\ held' = [held EXCEPT !.val.fields = r.fields]
          /\ last' = [NoCall EXCEPT !.op = "assign", !.t = t, !.ctx = current_env[t],
                                    !.target = name, !.raised = r.raised, !.val = r.val]
    /\ UNCHANGED <<registry, state, old_current, current_env, nextId, stack,
                   staleMocks, exitedSingletons>>

\* Context.__getitem__ on the context c (None: the Context() that
\* current_context() builds when the thread has none) with state s.  The
\* message of NoNamedDependency is built with str.format from a template
\* holding a single '}', so the raise statement raises ValueError instead.
getitem(c, s, item) ==
    IF item \in DOMAIN s.mocks
    THEN [raised |-> FALSE, val |-> s.mocks[item]]
    ELSE IF item \in DOMAIN NamedDependencies(c)
         THEN [raised |-> FALSE, val |-> Bound(NamedDependencies(c)[item])]
         ELSE [raised |-> TRUE, val |-> Error("ValueError", None)]

\* what create_autospec does when handed a value that is itself a mock:
\* it builds a mock from it or raises InvalidSpecError, depending on the
\* version of unittest.mock
AutospecOutcomes(value) ==
    IF value.kind = "mock" THEN {"mock", "InvalidSpecError"} ELSE {"mock"}

\* Context.mock for a name
MockName(t, item) ==
    /\ nextId <= MaxId
    /\ LET ce == current_env[t]
           s == IF ce = None THEN EmptyState ELSE state[ce][t]
           call == [NoCall EXCEPT !.op = "mock", !.t = t, !.ctx = ce, !.target = item,
                                  !.mocked = item \in DOMAIN s.mocks]
       IN  \E value \in {getitem(ce, s, item)} :
              IF value.raised
              THEN /\ last' = [call EXCEPT !.raised = TRUE, !.val = value.val]
                   /\ UNCHANGED <<state, stack, nextId>>
              ELSE \E outcome \in AutospecOutcomes(value.val) :
                      IF outcome = "InvalidSpecError"
                      THEN /\ last' = [call EXCEPT !.raised = TRUE,
                                                   !.val = Error("InvalidSpecError", None)]
                           /\ UNCHANGED <<state, stack, nextId>>
                      ELSE LET m == Autospec(item, nextId)
                           IN  /\ state' = IF ce = None THEN state
                                           ELSE [state EXCEPT ![ce][t].mocks = Put(@, item, m)]
                               /\ last' = [call EXCEPT !.val = m, !.built = 1]
                               /\ stack' = IF stack[t] = <<>> THEN stack
                                           ELSE [stack EXCEPT ![t][Len(stack[t])].mocks =
                                                   Put(@, item, nextId)]
                               /\ nextId' = nextId + 1
    /\ UNCHANGED <<registry, old_current, current_env, held, staleMocks, exitedSingletons>>

\* provide(DependencyConfiguration(Key(...), name, owner)): a request by name
Lookup(t, name) ==
    /\ LET ce == current_env[t]
           s == IF ce = None THEN EmptyState ELSE state[ce][t]
       IN  \E r \in {getitem(ce, s, name)} :
              last' = [NoCall EXCEPT !.op = "lookup", !.t = t, !.ctx = ce, !.target = name,
                                    !.mocked = name \in DOMAIN s.mocks,
                                    !.raised = r.raised, !.val = r.val]
    /\ UNCHANGED <<registry, state, old_current, current_env, nextId, stack, held,
                   staleMocks, exitedSingletons>>

Next ==
    \/ \E t \in Callers, c \in NamedCtx : Enter(t, c)
    \/ \E t \in Callers : Exit(t)
    \/ \E t \in Callers, T \in MockTargets : Mock(t, T)
    \/ \E t \in Callers, T \in ProvideTargets, o \in Owners : Provide(t, T, o)
    \/ \E t \in Callers, cls \in UserClasses : Construct(t, cls)
    \/ \E t \in Callers, name \in FieldNames : Read(t, name)

Spec == Init /\ [][Next]_vars

\* the program that works with named dependencies
NextNames ==
    \/ \E t \in Callers, c \in NamedCtx : Enter(t, c)
    \/ \E t \in Callers : Exit(t)
    \/ \E t \in Callers, n \in Names : MockName(t, n)
    \/ \E t \in Callers, n \in Names : Lookup(t, n)

SpecNames == Init /\ [][NextNames]_vars

\* the program that builds objects with bound fields, reads the fields and
\* assigns to them
NextBinder ==
    \/ \E t \in Callers, c \in NamedCtx : Enter(t, c)
    \/ \E t \in Callers : Exit(t)
    \/ \E t \in Callers, T \in MockTargets : Mock(t, T)
    \/ \E t \in Callers, cls \in BoundClasses : Construct(t, cls)
    \/ \E t \in Callers, name \in FieldNames : Read(t, name)
    \/ \E t \in Callers, name \in FieldNames : Assign(t, name)

SpecBinder == Init /\ [][NextBinder]_vars

\* Context.__use: the component is added to the registry set as it is
use(reg, component) ==
    IF component \in Range(reg) THEN reg ELSE Append(reg, component)

\* Context.__init__(*args): the registry after the loop over args
RECURSIVE ContextInit(_, _)
ContextInit(args, reg) ==
    IF args = <<>> THEN reg
    ELSE ContextInit(Tail(args), use(reg, Head(args)))

\* the program constructs Context X from arguments that include a class
\* that is not a dependency (test_cant_register_non_component)
Constructions ==
    { <<"Plain">>, <<"Plain", "Concrete">>, <<"Concrete", "Plain", "Concrete">> }

InitNew ==
    /\ \E args \in Constructions :
          registry = [c \in Ctx |-> IF c = "X" THEN ContextInit(args, <<>>)
                                    ELSE IF c = "Y" THEN YRegistry ELSE <<>>]
    /\ state = [c \in Ctx |-> [t \in Threads |-> EmptyState]]
    /\ old_current = [c \in Ctx |-> None]
    /\ current_env = [t \in Threads |-> None]
    /\ nextId = 1
    /\ stack = [t \in Threads |-> <<>>]
    /\ last = NoCall
    /\ held = NotHeld
    /\ staleMocks = {}
    /\ exitedSingletons = {}

SpecNew == InitNew /\ [][Next]_vars

\* two threads that share the Context objects X and Y
\* (test_new_environment_in_thread): X registers Concrete, Y registers Alt,
\* and each thread enters, leaves and asks for Base
InitThreads ==
    /\ registry = [c \in Ctx |-> IF c = "X" THEN <<"Concrete">>
                                  ELSE IF c = "Y" THEN YRegistry ELSE <<>>]
    /\ state = [c \in Ctx |-> [t \in Threads |-> EmptyState]]
    /\ old_current = [c \in Ctx |-> None]
    /\ current_env = [t \in Threads |-> None]
    /\ nextId = 1
    /\ stack = [t \in Threads |-> <<>>]
    /\ last = NoCall
    /\ held = NotHeld
    /\ staleMocks = {}
    /\ exitedSingletons = {}

NextThreads ==
    \/ \E t \in Threads, c \in NamedCtx : Enter(t, c)
    \/ \E t \in Threads : Exit(t)
    \/ \E t \in Threads : Provide(t, "Base", "o1")

SpecThreads == InitThreads /\ [][NextThreads]_vars

\* ------------------------------------------ inherited and supplied fields
\* the inject-decorated classes of test_inject.py: AbstractDependent
\* declares abstract_dependency: Base, SubDependent and SubSubDependent
\* inherit it undecorated, and the decorated OverwriteDependent declares
\* the same name again with the target Alt
InjectedClasses ==
    {"AbstractDependent", "SubDependent", "SubSubDependent", "OverwriteDependent"}

\* cls.__bases__
Bases(cls) ==
    CASE cls = "AbstractDependent"  -> <<"object">>
      [] cls = "SubDependent"       -> <<"AbstractDependent">>
      [] cls = "SubSubDependent"    -> <<"SubDependent">>
      [] cls = "OverwriteDependent" -> <<"AbstractDependent">>
      [] OTHER                      -> <<>>

\* the classes inject was applied to, and the annotations of their bodies
Decorated == {"AbstractDependent", "OverwriteDependent"}
Annotations(cls) ==
    CASE cls = "AbstractDependent"
           -> <<[name |-> "abstract_dependency", dependency |-> "Base"]>>
      [] cls = "OverwriteDependent"
           -> <<[name |-> "abstract_dependency", dependency |-> "Alt"]>>
      [] OTHER -> <<>>

\* __format_name: the private attribute carries the declaring class's name
format_name(cls, name) == <<cls, name>>

\* _decorate_class: the __dependencies__ list stored on the class
decorate_class(cls) ==
    [i \in 1..Len(Annotations(cls)) |->
        [name |-> Annotations(cls)[i].name,
         attr |-> format_name(cls, Annotations(cls)[i].name),
         dependency |-> Annotations(cls)[i].dependency]]

RECURSIVE ClassMro(_)
ClassMro(cls) ==
    IF Bases(cls) = <<>> THEN <<cls>> ELSE <<cls>> \o ClassMro(Bases(cls)[1])

\* the classes of the mro that carry their own __dependencies__
Declaring(cls) == {i \in 1..Len(ClassMro(cls)) : ClassMro(cls)[i] \in Decorated}

\* hasattr(cls, '__dependencies__') and cls.__dependencies__: the attribute
\* is looked up along the mro
hasattr_dependencies(cls) == Declaring(cls) # {}
getattr_dependencies(cls) ==
    decorate_class(ClassMro(cls)[CHOOSE i \in Declaring(cls) :
                                   \A j \in Declaring(cls) : i <= j])

\* _decorate_class wraps the __init__ the class has at that moment, its
\* base's decorated __init__ included: one decorator for every decorated
\* class of the mro
Decorators(cls) == Cardinality(Declaring(cls))

\* the classes of the mro whose body declares the field name
DeclaringField(cls, name) ==
    {i \in Declaring(cls) :
        \E j \in 1..Len(Annotations(ClassMro(cls)[i])) :
            Annotations(ClassMro(cls)[i])[j].name = name}

\* variant of the attribute lookup that finds the base-most declaration
descriptor_base(cls, name) ==
    IF DeclaringField(cls, name) = {} THEN None
    ELSE format_name(ClassMro(cls)[CHOOSE i \in DeclaringField(cls, name) :
                                     \A j \in DeclaringField(cls, name) : i >= j], name)

\* type(obj).name: the InjectedDependency(formatted_name) descriptor that
\* setattr(cls, name, ...) left on the most derived declaring class
descriptor(cls, name) ==
    IF DeclaringField(cls, name) = {} THEN None
    ELSE format_name(ClassMro(cls)[CHOOSE i \in DeclaringField(cls, name) :
                                     \A j \in DeclaringField(cls, name) : i <= j], name)

\* the binder works on [s, n, fields, kwargs, asked, raised, val]: the
\* context state, the object counter, the object's attributes, the keyword
\* arguments still to be consumed, the resolution requests issued so far
\* and the exception that ended the call
Without(f, k) == [x \in DOMAIN f \ {k} |-> f[x]]

\* __set_dependency: a keyword argument of the field's name is stored and
\* consumed; otherwise provide is asked and what it returned or raised is
\* stored
set_dependency(env, w, dep, owner, d) ==
    IF dep.name \in DOMAIN w.kwargs
    THEN [w EXCEPT !.fields = Put(@, dep.attr, w.kwargs[dep.name]),
                   !.kwargs = Without(@, dep.name)]
    ELSE The({[w EXCEPT !.s = r.s, !.n = r.n,
                        !.fields = Put(@, dep.attr, r.val),
                        !.asked = @ \cup {<<owner, dep.name>>}] :
                r \in {ContextProvide(env, w.s, dep.dependency, w.n, d + 1)}})

\* the loop over a __dependencies__ list; in _set_base_dependencies
\* (base = TRUE) an attribute the object already has is skipped
RECURSIVE set_each(_, _, _, _, _, _, _)
set_each(env, w, deps, i, base, owner, d) ==
    IF i > Len(deps) THEN w
    ELSE IF base /\ deps[i].attr \in DOMAIN w.fields
         THEN set_each(env, w, deps, i + 1, base, owner, d)
         ELSE The({set_each(env, w1, deps, i + 1, base, owner, d) :
                     w1 \in {set_dependency(env, w, deps[i], owner, d)}})

\* _set_base_dependencies
RECURSIVE set_base_dependencies(_, _, _, _, _, _)
set_base_dependencies(env, w, bases, i, owner, d) ==
    IF i > Len(bases) THEN w
    ELSE The({set_base_dependencies(env, w2, bases, i + 1, owner, d) :
                w2 \in {The({set_base_dependencies(env, w1, Bases(bases[i]), 1, owner, d) :
                          w1 \in {IF hasattr_dependencies(bases[i])
                                  THEN set_each(env, w, getattr_dependencies(bases[i]),
                                                1, TRUE, owner, d)
                                  ELSE w}})}})

\* __decorate_init.decorator for the k decorators still to run, outermost
\* first: each sets self.__dependencies__ and the bases' fields and calls
\* the __init__ it wraps; the innermost wraps object.__init__, which
\* accepts no keyword argument
RECURSIVE decorator(_, _, _, _, _)
decorator(env, w, cls, k, d) ==
    IF k = 0
    THEN IF DOMAIN w.kwargs = {} THEN w
         ELSE [w EXCEPT !.raised = TRUE, !.val = Error("TypeError", None)]
    ELSE The({decorator(env, w2, cls, k - 1, d) :
                w2 \in {The({set_base_dependencies(env, w1, Bases(cls), 1, cls, d) :
                          w1 \in {set_each(env, w, getattr_dependencies(cls), 1,
                                           FALSE, cls, d)}})}})

Binding(s, n, kwargs) ==
    [s |-> s, n |-> n, fields |-> NoFields, kwargs |-> kwargs, asked |-> {},
     raised |-> FALSE, val |-> NoValue]

\* the values the program supplies itself
Supplied(names) ==
    UNION {[S -> {Bound("test")}] : S \in SUBSET names}

\* cls(**kwargs) for an inject-decorated class
New(t, cls, kwargs) ==
    LET ce == current_env[t]
        active == ce # None
        s == IF active THEN state[ce][t] ELSE EmptyState
    IN  \E w \in {decorator([active |-> active,
                              order |-> IF active THEN registry[ce] ELSE <<>>],
                             Binding(s, nextId, kwargs), cls, Decorators(cls), 0)} :
        /\ w.n <= MaxObjects
        /\ state' = IF active THEN [state EXCEPT ![ce][t] = w.s] ELSE state
        /\ nextId' = IF w.raised THEN w.n ELSE w.n + 1
        /\ held' = IF w.raised THEN held
                   ELSE [val |-> Instance(cls, w.n, w.fields), ctx |-> ce]
        /\ last' = [NoCall EXCEPT !.op = "new", !.t = t, !.ctx = ce, !.target = cls,
                                  !.raised = w.raised, !.val = w.val,
                                  !.supplied = kwargs, !.asked = w.asked,
                                  !.built = nextId' - nextId]
        /\ UNCHANGED <<registry, old_current, current_env, stack, staleMocks,
                       exitedSingletons>>

\* obj.name through the descriptor of the object's class
ReadField(t, name) ==
    /\ held.val.kind = "inst"
    /\ held.val.type \in InjectedClasses
    /\ descriptor(held.val.type, name) # None
    /\ LET r == get(held.val.fields, descriptor(held.val.type, name))
       IN  last' = [NoCall EXCEPT !.op = "read", !.t = t, !.ctx = current_env[t],
                                 !.target = name, !.raised = r.raised, !.val = r.val]
    /\ UNCHANGED <<registry, state, old_current, current_env, nextId, stack, held,
                   staleMocks, exitedSingletons>>

\* the inject-decorated function of the program, f(first: Concrete,
\* second: Alt), which returns its arguments
Parameters == <<"first", "second">>
FunctionAnnotations ==
    <<[name |-> "first", dependency |-> "Concrete"],
      [name |-> "second", dependency |-> "Alt"]>>

\* the loop of _decorate_function.decorator over f.__annotations__: a
\* parameter that was supplied is skipped, a dependency-typed one is asked
\* of provide, whose exception ends the call
RECURSIVE inject_annotated(_, _, _, _)
inject_annotated(env, w, positional_names, i) ==
    IF i > Len(FunctionAnnotations) \/ w.raised THEN w
    ELSE LET a == FunctionAnnotations[i]
         IN  IF a.name \in DOMAIN w.kwargs \/ a.name \in positional_names
             THEN inject_annotated(env, w, positional_names, i + 1)
             ELSE The({inject_annotated(env, w1, positional_names, i + 1) :
                    w1 \in {The({
                        IF r.raised
                        THEN [w EXCEPT !.s = r.s, !.n = r.n, !.raised = TRUE,
                                       !.val = r.val,
                                       !.asked = @ \cup {<<"f", a.name>>}]
                        ELSE [w EXCEPT !.s = r.s, !.n = r.n,
                                       !.kwargs = Put(@, a.name, r.val),
                                       !.asked = @ \cup {<<"f", a.name>>}] :
                          r \in {ContextProvide(env, w.s, a.dependency, w.n, 1)}})}})

\* the loop over every parameter name: a name bound in the current context
\* that was not supplied is asked for by name
RECURSIVE inject_named(_, _, _, _)
inject_named(c, w, positional_names, i) ==
    IF i > Len(Parameters) \/ w.raised THEN w
    ELSE LET name == Parameters[i]
         IN  IF /\ name \in DOMAIN NamedDependencies(c)
                /\ name \notin DOMAIN w.kwargs
                /\ name \notin positional_names
             THEN The({inject_named(c, w1, positional_names, i + 1) :
                    w1 \in {The({
                        IF r.raised
                        THEN [w EXCEPT !.raised = TRUE, !.val = r.val,
                                       !.asked = @ \cup {<<"f", name>>}]
                        ELSE [w EXCEPT !.kwargs = Put(@, name, r.val),
                                       !.asked = @ \cup {<<"f", name>>}] :
                          r \in {getitem(c, w.s, name)}})}})
             ELSE inject_named(c, w, positional_names, i + 1)

\* f(*args, **dependency_args): the value every parameter is bound to;
\* a parameter left without a value is a TypeError
bind(w, args) ==
    LET positional == 1..Len(args)
        missing == {i \in 1..Len(Parameters) :
                      i \notin positional /\ Parameters[i] \notin DOMAIN w.kwargs}
    IN  IF w.raised THEN w
        ELSE IF missing # {}
             THEN [w EXCEPT !.raised = TRUE, !.val = Error("TypeError", None)]
             ELSE [w EXCEPT !.fields =
                      [p \in Range(Parameters) |->
                          IF \E i \in positional : Parameters[i] = p
                          THEN args[CHOOSE i \in positional : Parameters[i] = p]
                          ELSE w.kwargs[p]]]

\* _decorate_function.decorator
decorated_function(env, c, s, n, args, kwargs) ==
    LET positional_names == {Parameters[i] : i \in 1..Len(args)}
    IN  The({bind(w2, args) :
               w2 \in {The({inject_named(c, w1, positional_names, 1) :
                         w1 \in {inject_annotated(env, Binding(s, n, kwargs),
                                                  positional_names, 1)}})}})

\* the positional arguments the program passes to f
Positionals == {<<>>, <<Bound("p1")>>, <<Bound("p1"), Bound("p2")>>}

\* f(*args, **kwargs)
Call(t, args, kwargs) ==
    LET ce == current_env[t]
        active == ce # None
        s == IF active THEN state[ce][t] ELSE EmptyState
        given == [p \in {Parameters[i] : i \in 1..Len(args)} \cup DOMAIN kwargs |->
                    IF p \in DOMAIN kwargs THEN kwargs[p]
                    ELSE args[CHOOSE i \in 1..Len(args) : Parameters[i] = p]]
    IN  \E w \in {decorated_function([active |-> active,
                                       order |-> IF active THEN registry[ce] ELSE <<>>],
                                      ce, s, nextId, args, kwargs)} :
        /\ w.n <= MaxObjects + 1
        /\ state' = IF active THEN [state EXCEPT ![ce][t] = w.s] ELSE state
        /\ nextId' = w.n
        /\ last' = [NoCall EXCEPT !.op = "call", !.t = t, !.ctx = ce, !.target = "f",
                                  !.raised = w.raised,
                                  !.val = IF w.raised THEN w.val
                                          ELSE [kind |-> "args", type |-> "f", id |-> 0,
                                                fields |-> w.fields, cause |-> None],
                                  !.supplied = given, !.asked = w.asked,
                                  !.built = w.n - nextId]
        /\ UNCHANGED <<registry, old_current, current_env, stack, held, staleMocks,
                       exitedSingletons>>

\* the program that builds objects of the inheriting classes, with and
\* without keyword arguments, reads their fields and calls f
NextInherit ==
    \/ \E t \in Callers, c \in NamedCtx : Enter(t, c)
    \/ \E t \in Callers : Exit(t)
    \/ \E t \in Callers, cls \in InjectedClasses,
          kwargs \in Supplied({"abstract_dependency"}) : New(t, cls, kwargs)
    \/ \E t \in Callers : ReadField(t, "abstract_dependency")
    \/ \E t \in Callers, args \in Positionals :
          \E kwargs \in Supplied(Range(Parameters) \ {Parameters[i] : i \in 1..Len(args)}) :
             Call(t, args, kwargs)

SpecInherit == InitThreads /\ [][NextInherit]_vars

\* the values of a program that also passes an exception object it built
\* itself (ValueError('supplied')) as a field's value
SuppliedValues(names) ==
    UNION {[S -> {Bound("test"), Error("ValueError", None)}] : S \in SUBSET names}

NextSupplied ==
    \/ \E t \in Callers, c \in NamedCtx : Enter(t, c)
    \/ \E t \in Callers : Exit(t)
    \/ \E t \in Callers, cls \in InjectedClasses,
          kwargs \in SuppliedValues({"abstract_dependency"}) : New(t, cls, kwargs)
    \/ \E t \in Callers : ReadField(t, "abstract_dependency")

SpecSupplied == InitThreads /\ [][NextSupplied]_vars

\* ------------------------------------------------------------------- union
\* variant of __or__ that keeps the left operand's registry only
context_or_left(a, b) ==
    {[registry |-> ContextInit(args, <<>>), named |-> NoFields] :
        args \in Orders(Range(a))}

\* Context.__or__: Context(*new_registry) for the union of the two registry
\* sets, in whichever order the set iterates, and without keyword arguments
context_or(a, b) ==
    {[registry |-> ContextInit(args, <<>>), named |-> NoFields] :
        args \in Orders(Range(a) \cup Range(b))}

\* u = a | b: the program keeps the result as the Context object U and
\* builds another one only while U is not in use
Or(t, a, b) ==
    /\ "U" \notin Referenced(current_env, old_current)
    /\ \A u \in Threads : \A i \in 1..Len(stack[u]) : stack[u][i].ctx # "U"
    /\ \E new \in context_or(registry[a], registry[b]) :
          /\ registry' = [registry EXCEPT !["U"] = new.registry]
          /\ last' = [NoCall EXCEPT !.op = "or", !.t = t, !.ctx = a, !.target = b,
                                    !.val = [kind |-> "context", type |-> "U", id |-> 0,
                                             fields |-> new.named, cause |-> None]]
    /\ UNCHANGED <<state, old_current, current_env, nextId, stack, held, staleMocks,
                   exitedSingletons>>

\* the program that combines Context X and Context Y and works inside the
\* result
NextUnion ==
    \/ \E t \in Callers, a \in NamedCtx, b \in NamedCtx : Or(t, a, b)
    \/ \E t \in Callers, c \in NamedCtx \cup Unions :
          /\ registry[c] # <<>>
          /\ Enter(t, c)
    \/ \E t \in Callers : Exit(t)
    \/ \E t \in Callers : Provide(t, "Base", "o1")

SpecUnion == Init /\ [][NextUnion]_vars

\* two threads that share the Context object X: the observed thread works
\* in X and Y, installs a stand-in for Concrete and asks for Concrete, while
\* the other thread enters and leaves X
NextShared ==
    \/ \E t \in Callers, c \in NamedCtx : Enter(t, c)
    \/ \E t \in Threads \ Callers : Enter(t, "X")
    \/ \E t \in Threads : Exit(t)
    \/ \E t \in Callers : Mock(t, "Concrete")
    \/ \E t \in Callers : Provide(t, "Concrete", "o1")

SpecShared == InitThreads /\ [][NextShared]_vars

\* ------------------------------------------------------- class definition
\* what a parameter or the return value of __init__ is annotated with:
\* nothing, a Dependency subclass, a Key instance, another class (int), or
\* an object that is not a class (None, a string)
AnnotationKinds == {"none", "dependency", "key", "class", "object"}

\* the bodies of the Dependency subclasses the program declares: whether
\* the body defines __init__, whether that __init__ is inject-decorated, the
\* annotations of its parameters after self, and its return annotation
ParameterLists ==
    UNION {[1..k -> AnnotationKinds] : k \in 0..MaxParams}
ClassBodies ==
    [init : BOOLEAN, inject : BOOLEAN, params : ParameterLists,
     returns : AnnotationKinds]

\* init.__annotations__.values(): the annotated parameters in order, then the
\* return annotation
annotation_values(dct) ==
    SelectSeq(dct.params \o <<dct.returns>>, LAMBDA a : a # "none")

\* _check_init: what it raises, None when it returns.  issubclass(a,
\* Dependency) raises TypeError for an annotation that is not a class.
check_init(dct) ==
    IF ~dct.init THEN None
    ELSE IF Len(dct.params) + 1 = 1 THEN None
    ELSE IF ~dct.inject THEN "InvalidDependency"
    ELSE LET values == annotation_values(dct)
             dependency_annotations ==
                 SelectSeq(values, LAMBDA a : a = "key" \/ a = "dependency")
         IN  IF \E i \in 1..Len(values) : values[i] = "object" THEN "TypeError"
             ELSE IF Len(dct.params) + 1 - 1 # Len(dependency_annotations)
                  THEN "InvalidDependency"
                  ELSE None

InitClass ==
    /\ \E dct \in ClassBodies :
          last = [NoCall EXCEPT !.op = "class", !.target = dct]
    /\ registry = [c \in Ctx |-> <<>>]
    /\ state = [c \in Ctx |-> [t \in Threads |-> EmptyState]]
    /\ old_current = [c \in Ctx |-> None]
    /\ current_env = [t \in Threads |-> None]
    /\ nextId = 1
    /\ stack = [t \in Threads |-> <<>>]
    /\ held = NotHeld
    /\ staleMocks = {}
    /\ exitedSingletons = {}

\* _DependencyMeta.__new__: the class statement runs _check_init(dct)
DefineClass ==
    /\ last.op = "class"
    /\ LET e == check_init(last.target)
       IN  last' = [last EXCEPT !.op = "defined", !.raised = e # None,
                                !.val = IF e = None THEN NoValue ELSE Error(e, None)]
    /\ UNCHANGED <<registry, state, old_current, current_env, nextId, stack, held,
                   staleMocks, exitedSingletons>>

SpecClass == InitClass /\ [][DefineClass]_vars

\* ------------------------------------------------------------- re-entry
\* a program whose main block is `with Y:` and that enters and leaves X
\* inside it, also while X is already open: Y.__enter__() has run from the
\* initial state (Y is current and remembers the Context() that
\* current_context() built), and stack holds the blocks opened inside Y
InitReenter ==
    /\ registry = [c \in Ctx |-> IF c = "X" THEN <<"Concrete">>
                                  ELSE IF c = "Y" THEN YRegistry ELSE <<>>]
    /\ state = [c \in Ctx |-> [t \in Threads |-> EmptyState]]
    /\ old_current = [c \in Ctx |-> IF c = "Y" THEN "E1" ELSE None]
    /\ current_env = [t \in Threads |-> IF t \in Callers THEN "Y" ELSE None]
    /\ nextId = 1
    /\ stack = [t \in Threads |-> <<>>]
    /\ last = NoCall
    /\ held = NotHeld
    /\ staleMocks = {}
    /\ exitedSingletons = {}

NextReenter ==
    \/ \E t \in Callers : Enter(t, "X")
    \/ \E t \in Callers : Exit(t)
    \/ \E t \in Callers : Mock(t, "Concrete")
    \/ \E t \in Callers, T \in {"Base", "Concrete"} : Provide(t, T, "o1")

SpecReenter == InitReenter /\ [][NextReenter]_vars

\* ---------------------------------------------------- failing singletons
\* a program that asks for the singletons Single and AbsSingle, neither of
\* them registered, inside and outside the blocks of X and Y
NextSingletons ==
    \/ \E t \in Callers, c \in NamedCtx : Enter(t, c)
    \/ \E t \in Callers : Exit(t)
    \/ \E t \in Callers, T \in {"Single", "AbsSingle"}, o \in Owners : Provide(t, T, o)

SpecSingletons == InitThreads /\ [][NextSingletons]_vars

TypeOK ==
    /\ nextId \in 1..(MaxId + 1)
    /\ \A t \in Threads : Len(stack[t]) <= MaxNest
    /\ \A c \in Ctx, t \in Threads : state[c][t].pending = {}

\* ------------------------------------------------------------------ claims
\* the types registered in the context a call ran in
Registered(c) == IF c = None THEN {} ELSE Range(registry[c])

\* the registered subtypes of T and their specificity
Candidates(c, T) == {S \in Registered(c) : issubclass(S, T)}
Specificity(S, T) == mro_distance(S, T)

AllDistinct(c, T) ==
    \A a, b \in Candidates(c, T) : a # b => Specificity(a, T) # Specificity(b, T)

MostDerived(c, T) ==
    CHOOSE S \in Candidates(c, T) :
        \A R \in Candidates(c, T) : Specificity(R, T) <= Specificity(S, T)

TieAtMax(c, T) ==
    \E a, b \in Candidates(c, T) :
        /\ a # b
        /\ Specificity(a, T) = Specificity(b, T)
        /\ \A R \in Candidates(c, T) : Specificity(R, T) <= Specificity(a, T)

\* a type whose construction cannot fail: concrete and without bound fields
Leaf(T) == T \notin AbstractTypes /\ Dependencies(T) = <<>>

ConstructionErrors == {"InjectionError", "CircularDependency"}

\* a provide call for a target that has no mock override
Resolved == last.op = "provide" /\ ~last.mocked

\* C1: when the registered subtypes of an unmocked target T all have different
\* specificities (one subtype included), provide(T) hands the most-derived
\* registered subtype to construction under every iteration order of the
\* registry, and what it returns is an instance of exactly that subtype; it
\* raises only when constructing that subtype fails.
C1_MostDerivedProvided ==
    (Resolved /\ Candidates(last.ctx, last.target) # {} /\ AllDistinct(last.ctx, last.target))
    => LET S == MostDerived(last.ctx, last.target)
       IN  /\ last.impl = S
           /\ \A o \in Orders(Registered(last.ctx)) :
                  find_subtype(o, last.target) = [ambiguous |-> FALSE, subtype |-> S]
           /\ ~last.raised => IsInstance(last.val, S) /\ last.val.type = S
           /\ last.raised => ~Leaf(S) /\ last.val.type \in ConstructionErrors

C1_Witness ==
    /\ Resolved /\ ~last.raised
    /\ Cardinality(Candidates(last.ctx, last.target)) = 3
    /\ AllDistinct(last.ctx, last.target)
    /\ last.val.kind = "inst"
    /\ last.val.type = MostDerived(last.ctx, last.target)

\* C2: when two or more registered subtypes of an unmocked target tie for the
\* greatest specificity, provide raises AmbiguousDependencies, hands nothing
\* to construction and constructs nothing.
C2_TieIsAmbiguous ==
    (Resolved /\ TieAtMax(last.ctx, last.target))
    => /\ last.raised
       /\ last.val.type = "AmbiguousDependencies"
       /\ last.impl = None
       /\ last.built = 0

C2_Witness ==
    /\ Resolved /\ TieAtMax(last.ctx, last.target)
    /\ last.raised /\ last.val.type = "AmbiguousDependencies"

\* C3: when the context registers no subtype of an unmocked concrete target T,
\* provide hands T itself to construction and returns an instance of exactly
\* T; it raises only when constructing T fails.
C3_FallsBackToTarget ==
    (Resolved /\ Candidates(last.ctx, last.target) = {} /\ last.target \notin AbstractTypes)
    => /\ last.impl = last.target
       /\ ~last.raised => IsInstance(last.val, last.target) /\ last.val.type = last.target
       /\ last.raised => ~Leaf(last.target) /\ last.val.type \in ConstructionErrors

C3_Witness ==
    /\ Resolved /\ last.ctx \in NamedCtx
    /\ Candidates(last.ctx, last.target) = {}
    /\ ~last.raised /\ last.val.kind = "inst" /\ last.val.type = last.target

\* C4 (as claimed): when the active context registers no subtype of an
\* unmocked abstract target, provide fails with UnregisteredDependency.
C4_AbstractUnregistered ==
    (Resolved /\ last.ctx # None /\ Candidates(last.ctx, last.target) = {}
        /\ last.target \in AbstractTypes)
    => last.raised /\ last.val.type = "UnregisteredDependency"

\* C5 (as claimed): while one `with` block is the innermost one, all provide
\* calls that return a constructed singleton return the same instance.
C5_OneSingletonPerScope ==
    \A t \in Threads : \A i \in 1..Len(stack[t]) : Cardinality(stack[t][i].single) <= 1

\* C6: a constructed singleton instance returned by provide inside a `with`
\* block of a context was not returned inside an earlier, ended `with` block
\* of that context.
C6_SingletonNotReused ==
    (last.op = "provide" /\ Singletons(last) # {} /\ stack[last.t] # <<>>)
    => [ctx |-> Top(last.t).ctx, id |-> last.val.id] \notin exitedSingletons

C6_Witness ==
    /\ last.op = "provide" /\ Singletons(last) # {} /\ stack[last.t] # <<>>
    /\ \E e \in exitedSingletons : e.ctx = Top(last.t).ctx /\ e.id # last.val.id

\* C7 (as claimed): two provide calls in a row for the same non-singleton
\* target inside one `with` block return the identical instance when the
\* owner is the same and distinct instances when the owners differ.
C7_PerOwnerInstance ==
    [][(/\ last.op = "provide" /\ last'.op = "provide"
        /\ last'.t = last.t /\ last'.target = last.target
        /\ stack' = stack /\ stack[last.t] # <<>>
        /\ ~last.raised /\ ~last'.raised
        /\ last.val.kind = "inst" /\ last'.val.kind = "inst"
        /\ ~is_singleton(last.val.type))
       => (last'.owner = last.owner <=> last'.val.id = last.val.id)]_vars

\* two types that each require the other through a bound field
MutuallyRequire(A, B) ==
    /\ A # B
    /\ \E i \in 1..Len(Dependencies(A)) : Dependencies(A)[i].dependency = B
    /\ \E i \in 1..Len(Dependencies(B)) : Dependencies(B)[i].dependency = A

\* the held object has a field bound to one of two registered types that
\* require each other
CycleBehind(name) ==
    /\ held.val.kind = "inst" /\ held.ctx # None
    /\ \E i \in 1..Len(Dependencies(held.val.type)) :
          /\ Dependencies(held.val.type)[i].name = name
          /\ \E B \in Registered(held.ctx) :
                /\ Dependencies(held.val.type)[i].dependency \in Registered(held.ctx)
                /\ MutuallyRequire(Dependencies(held.val.type)[i].dependency, B)

Standins(table) ==
    {[target |-> table[k].type, id |-> table[k].id] :
        k \in {x \in DOMAIN table : table[x].kind = "mock"}}

\* C9: a stand-in installed inside a `with` block that has ended is never
\* returned by provide afterwards, and no thread's current context holds it.
C9_MockGoneAfterExit ==
    /\ (last.op = "provide" /\ ~last.raised /\ last.val.kind = "mock")
       => [target |-> last.val.type, id |-> last.val.id] \notin staleMocks
    /\ \A t \in Threads :
          current_env[t] # None
          => (Standins(state[current_env[t]][t].mocks)
                \cup Standins(state[current_env[t]][t].singletons)) \cap staleMocks = {}

C9_Witness ==
    /\ last.op = "provide" /\ ~last.raised /\ last.val.kind = "inst"
    /\ stack[last.t] # <<>>
    /\ \E m \in staleMocks : m.target = last.target

\* C10 (as claimed): after mock(T) inside the innermost `with` block, every
\* provide(T) in that block returns the stand-in mock returned and constructs
\* nothing.
C10_MockAlwaysReturned ==
    (last.op = "provide" /\ stack[last.t] # <<>>
        /\ last.target \in DOMAIN Top(last.t).mocks)
    => /\ ~last.raised
       /\ last.val = Autospec(last.target, Top(last.t).mocks[last.target])
       /\ last.built = 0

\* no `with` block of the thread was entered again while one of the open
\* blocks was open: the open blocks are a properly nested sequence of
\* distinct Context objects
ProperlyNested(t) == \A i \in 1..Len(stack[t]) : ~stack[t][i].again

\* C13: while the open `with` blocks of a thread are a properly nested
\* sequence of distinct contexts, the thread's current context is the
\* innermost open one: the most recently entered that has not been exited,
\* and, after an exit, the context that was current before the matching enter.
C13_InnermostIsCurrent ==
    \A t \in Callers :
        (stack[t] # <<>> /\ ProperlyNested(t)) => current_env[t] = Top(t).ctx

C13_Witness ==
    \E t \in Callers :
        /\ Len(stack[t]) = 2 /\ ProperlyNested(t)
        /\ stack[t][1].ctx # stack[t][2].ctx
        /\ current_env[t] = stack[t][2].ctx

\* C14 (as claimed): a thread that is inside no `with` block has no current
\* context: the cell holds None, as it did before the outermost enter.
C14_NoneAfterOutermostExit ==
    \A t \in Threads : stack[t] = <<>> => current_env[t] = None

\* C16 (as claimed): provide on a thread that is inside no `with` block
\* raises NoEnvironment and constructs nothing.
C16_NoActiveScope ==
    (last.op = "provide" /\ stack[last.t] = <<>>)
    => last.raised /\ last.val.type = "NoEnvironment" /\ last.built = 0

C11_MockOfNameStored ==
    (last.op = "mock" /\ last.target \in Names /\ stack[last.t] # <<>>)
    => /\ ~last.raised
       /\ last.val.kind = "mock"
       /\ last.target \in DOMAIN state[last.ctx][last.t].mocks
       /\ state[last.ctx][last.t].mocks[last.target] = last.val

\* C12 (as claimed): a request by name returns the stand-in when the name is
\* mocked, otherwise the value the current context binds to the name, and
\* raises NoNamedDependency when the name is neither mocked nor bound.
C12_NameLookup ==
    last.op = "lookup"
    => IF last.mocked
       THEN ~last.raised /\ last.val.kind = "mock" /\ last.val.type = last.target
       ELSE IF last.target \in DOMAIN NamedDependencies(last.ctx)
            THEN ~last.raised
                 /\ last.val = Bound(NamedDependencies(last.ctx)[last.target])
            ELSE last.raised /\ last.val.type = "NoNamedDependency"

\* the contexts whose `with` block the thread is inside
Entered(t) == {stack[t][i].ctx : i \in 1..Len(stack[t])}

\* C15 (as claimed): the current context of a thread is never a Context that
\* only another thread has entered, and a provide call resolves against a
\* context the calling thread entered itself.
C15_OwnScopeOnly ==
    /\ \A t \in Threads : current_env[t] \in NamedCtx => current_env[t] \in Entered(t)
    /\ (last.op = "provide" /\ last.ctx \in NamedCtx) => last.ctx \in Entered(last.t)

\* C17 (as claimed): every type in the registry of a constructed Context is
\* a capability type, because construction from any other type raises
\* InvalidDependency.
C17_RegistryOfCapabilityTypes ==
    \A c \in Ctx : Range(registry[c]) \subseteq Types

\* the object the program holds has a field whose resolution failed
HasFailedField ==
    /\ held.val.kind = "inst"
    /\ \E n \in DOMAIN held.val.fields : held.val.fields[n].kind = "error"

\* C19: building an object of a class with bound fields never raises, also
\* when the resolution of a field failed (the field of the abstract Base in
\* a context without a subtype of Base holds the InjectionError); reading a
\* field whose resolution succeeded returns the stored value, and reading
\* the failed field raises the stored error.
C19_FieldErrorsDeferred ==
    /\ (last.op = "construct" /\ last.target \in BoundClasses) => ~last.raised
    /\ (held.val.kind = "inst" /\ held.val.type = "Partial" /\ held.ctx # None
          /\ Candidates(held.ctx, "Base") = {})
       => held.val.fields["a"] = Error("InjectionError", "TypeError")
    /\ last.op = "read"
       => /\ last.val = held.val.fields[last.target]
          /\ last.raised <=> held.val.fields[last.target].kind = "error"

C19_Witness ==
    /\ HasFailedField
    /\ last.op = "read" /\ ~last.raised
    /\ last.val.kind = "inst"

\* C20: assigning to a bound field of a built object raises AttributeError
\* and leaves the object, the stored value of the field included, as it was.
C20_AssignFails ==
    [][last'.op = "assign"
       => /\ last'.raised
          /\ last'.val.type = "AttributeError"
          /\ held' = held]_vars

C20_Witness ==
    /\ last.op = "assign" /\ last.raised
    /\ held.val.kind = "inst"
    /\ held.val.fields[last.target].kind = "inst"

\* C21: a value the caller supplies is what the field or the parameter
\* holds afterwards, and no resolution request is issued under that name:
\* after cls(**kwargs) every supplied field reads as the supplied value, and
\* after f(*args, **kwargs) every supplied parameter has the supplied value.
C21_SuppliedTakesPrecedence ==
    /\ (last.op = "new" /\ ~last.raised) =>
          \A name \in DOMAIN last.supplied :
             /\ descriptor(last.target, name) # None
             /\ held.val.fields[descriptor(last.target, name)] = last.supplied[name]
             /\ \A a \in last.asked : a[2] # name
    /\ (last.op = "call" /\ ~last.raised) =>
          \A name \in DOMAIN last.supplied :
             /\ last.val.fields[name] = last.supplied[name]
             /\ <<"f", name>> \notin last.asked

\* the target the most derived class of the mro declares for a field
DeclaredTarget(cls, name) ==
    LET owner == ClassMro(cls)[CHOOSE i \in DeclaringField(cls, name) :
                                 \A j \in DeclaringField(cls, name) : i <= j]
    IN  Annotations(owner)[CHOOSE j \in 1..Len(Annotations(owner)) :
                             Annotations(owner)[j].name = name].dependency

\* C22: reading a field of an object of an inheriting class gives the
\* resolution of the target declared by the most derived class that declares
\* the name (the subclass's redeclaration, or the base's declaration when
\* only a base declares it): an instance of that target, of a registered
\* subtype when the construction context had one, and the read raises only
\* when that resolution could not succeed in the construction context.
C22_MostDerivedDeclarationRead ==
    (/\ last.op = "read"
     /\ held.val.type \in InjectedClasses
     /\ last.val.kind # "value")
    => LET target == DeclaredTarget(held.val.type, last.target)
           found == Candidates(held.ctx, target)
       IN  IF last.raised
           THEN \/ ~AllDistinct(held.ctx, target)
                \/ found = {} /\ target \in AbstractTypes
           ELSE /\ IsInstance(last.val, target)
                /\ found # {} => last.val.type \in found

C22_Witness ==
    /\ last.op = "read" /\ ~last.raised
    /\ held.val.type = "OverwriteDependent"
    /\ last.val.kind = "inst" /\ last.val.type = "Alt"
    /\ held.val.fields[<<"AbstractDependent", "abstract_dependency">>].kind = "inst"
    /\ held.val.fields[<<"AbstractDependent", "abstract_dependency">>].type = "Concrete"

\* a field a base declares, read on an object two levels below it
C22_DepthReached ==
    /\ last.op = "read" /\ ~last.raised
    /\ held.val.type = "SubSubDependent"
    /\ last.val.kind = "inst" /\ last.val.type = "Concrete"

\* C23: a | b builds a new Context whose registered types are exactly the
\* types registered in a together with those registered in b and which has
\* no named dependency; the registries and states of a and b, and every
\* thread's current context, are what they were before.
C23_UnionOfRegistries ==
    [][last'.op = "or"
       => /\ Range(registry'["U"]) = Range(registry[last'.ctx]) \cup Range(registry[last'.target])
          /\ Len(registry'["U"]) = Cardinality(Range(registry'["U"]))
          /\ DOMAIN last'.val.fields = {}
          /\ \A n \in Names : getitem("U", EmptyState, n).raised
          /\ \A c \in NamedCtx : registry'[c] = registry[c] /\ state'[c] = state[c]
          /\ current_env' = current_env /\ old_current' = old_current]_vars

C23_Witness ==
    /\ last.op = "or"
    /\ last.ctx # last.target
    /\ Range(registry["U"]) # Range(registry[last.ctx])
    /\ Range(registry["U"]) # Range(registry[last.target])
    /\ NamedDependencies(last.ctx) # NoFields

\* a provide call of thread t inside a `with` block that was entered while
\* another block was open, in the context of that block
InNested(t) ==
    /\ Len(stack[t]) >= 2
    /\ last.op = "provide" /\ last.t = t
    /\ last.ctx = Top(t).ctx

\* C24: inside a block entered while another block was open, provide(T)
\* returns the stand-in the enclosing context held for T when the block was
\* entered, unless mock(T) was called again inside the block.
C24_NestedInheritsMocks ==
    \A t \in Threads :
       (/\ InNested(t)
        /\ last.target \in DOMAIN Top(t).outer.mocks
        /\ last.target \notin DOMAIN Top(t).mocks)
       => /\ ~last.raised
          /\ last.val = Top(t).outer.mocks[last.target]

\* C25: inside a block entered while another block was open, provide returns
\* for a singleton type the instance the enclosing context had cached for it
\* when the block was entered.
C25_NestedInheritsSingletons ==
    \A t \in Threads :
       (/\ InNested(t)
        /\ ~last.mocked
        /\ last.impl # None
        /\ last.impl \in DOMAIN Top(t).outer.singletons)
       => /\ ~last.raised
          /\ last.val = Top(t).outer.singletons[last.impl]

\* C26: when a block that was entered inside another block ends, the state
\* of the enclosing block's context (mocks, singleton cache and pending set)
\* is what it was when the inner block was entered.
C26_EnclosingStateKept ==
    [][\A t \in Threads :
          (/\ Len(stack[t]) >= 2
           /\ Len(stack'[t]) = Len(stack[t]) - 1)
          => state'[stack[t][Len(stack[t]) - 1].ctx][t] = Top(t).outer]_vars

\* C27: a class body is accepted when its __init__ has no parameter after
\* self, or is inject-decorated with every parameter after self annotated
\* with a Dependency subclass or a Key; every other class body is rejected
\* with InvalidDependency.
C27_ConstructorShapeChecked ==
    last.op = "defined"
    => LET dct == last.target
           valid == \/ ~dct.init
                    \/ Len(dct.params) = 0
                    \/ /\ dct.inject
                       /\ \A i \in 1..Len(dct.params) :
                             dct.params[i] \in {"dependency", "key"}
       IN  IF valid THEN ~last.raised
           ELSE last.raised /\ last.val.type = "InvalidDependency"

\* exactly one registered subtype of T has the greatest specificity
UniqueMostDerived(c, T) ==
    \E S \in Candidates(c, T) :
       \A R \in Candidates(c, T) \ {S} : Specificity(R, T) < Specificity(S, T)

\* C28: whenever exactly one registered subtype of an unmocked target T has
\* the greatest specificity, provide(T) hands that subtype to construction
\* and returns an instance of it, also when less specific registered
\* subtypes tie with each other; it raises only when constructing that
\* subtype fails.
C28_AmbiguousOnlyAtGreatest ==
    (Resolved /\ UniqueMostDerived(last.ctx, last.target))
    => LET S == MostDerived(last.ctx, last.target)
       IN  /\ last.impl = S
           /\ ~last.raised => IsInstance(last.val, S) /\ last.val.type = S
           /\ last.raised => ~Leaf(S) /\ last.val.type \in ConstructionErrors

\* C29: a provide call leaves the pending set as it found it, whether it
\* returns or raises: between calls the pending set of every context is
\* empty in every thread, and since nothing stays behind in pending,
\* CircularDependency is raised only for a type that requires itself through
\* its bound fields.
C29_PendingRestored ==
    /\ \A c \in Ctx, t \in Threads : state[c][t].pending = {}
    /\ (last.op = "provide" /\ last.raised /\ last.val.type = "CircularDependency")
       => \E B \in Types : MutuallyRequire(last.impl, B)

C29_Witness ==
    /\ last.op = "provide" /\ last.raised /\ last.ctx \in NamedCtx
    /\ last.val.type = "CircularDependency"
    /\ state[last.ctx][last.t].pending = {}

\* C30: a provide call that reaches a type requiring itself through its
\* bound fields ends with CircularDependency (and not by running into the
\* interpreter's recursion limit), wherever the call is made.
C30_CycleEndsInCircularDependency ==
    (/\ last.op = "provide" /\ ~last.mocked
     /\ last.impl # None
     /\ \E B \in Types : MutuallyRequire(last.impl, B))
    => last.raised /\ last.val = Error("CircularDependency", None)

\* C31: a bound field keeps what construction stored in it: every step other
\* than a construction leaves the held object as it is (mock, enter and exit
\* included), and a read returns the stored value, or raises the stored
\* error, without creating an object or touching any context state.
C31_FieldTerminal ==
    [][/\ last'.op # "construct" => held' = held
       /\ last'.op = "read"
          => /\ last'.val = held.val.fields[last'.target]
             /\ last'.raised <=> held.val.fields[last'.target].kind = "error"
             /\ nextId' = nextId
             /\ state' = state]_vars

C31_Witness ==
    /\ last.op = "read" /\ ~last.raised
    /\ last.val.kind = "mock"
    /\ held.ctx \in NamedCtx
    /\ last.ctx # held.ctx
    /\ [target |-> last.val.type, id |-> last.val.id] \in staleMocks

\* C32 (as claimed): a step taken by one thread (an enter, exit, mock or
\* provide of that thread) leaves the mocks, the singleton cache and the
\* pending set that every other thread sees in each Context object as they
\* were, so what a thread resolves depends on its own operations only.
C32_ThreadsIsolated ==
    [][\A t \in Threads :
          (stack'[t] = stack[t] /\ last'.t # t)
          => \A c \in NamedCtx : state'[c][t] = state[c][t]]_vars

\* the private attributes of the declarations of a field name that a more
\* derived class of the mro declares again
Overridden(cls) ==
    {format_name(ClassMro(cls)[i], dep.name) :
        <<i, dep>> \in {p \in Declaring(cls) \X
                               UNION {Range(Annotations(c)) : c \in Decorated} :
                           /\ p[1] \in DeclaringField(cls, p[2].name)
                           /\ \E j \in DeclaringField(cls, p[2].name) : j < p[1]}}

\* C33 (as claimed): constructing an object of a class that declares again
\* a field name of its base class resolves nothing for the base class's
\* declaration: the object gets no attribute for it.
C33_OverriddenBaseSkipped ==
    (last.op = "new" /\ ~last.raised)
    => Overridden(last.target) \cap DOMAIN held.val.fields = {}

\* C34 (as claimed): in the program that works inside `with Y:`, entering X
\* while X is already open is safe: while blocks of X are open X is the
\* current context, also after the inner block has ended, and when the
\* last of them has ended Y is the current context again.
C34_ReentrySafe ==
    \A t \in Callers :
        current_env[t] = IF stack[t] = <<>> THEN "Y" ELSE Top(t).ctx

\* C35 (as claimed): when two threads enter and leave shared Context
\* objects in any interleaving, the exit of a thread whose open blocks are
\* properly nested makes current on that thread what was current there
\* before the matching enter: the context of the block that encloses the
\* ended one, or no entered context when the ended block was its outermost.
C35_ExitRestoresOwn ==
    [][\A t \in Threads :
          (/\ stack[t] # <<>>
           /\ ProperlyNested(t)
           /\ stack'[t] = SubSeq(stack[t], 1, Len(stack[t]) - 1))
          => IF Len(stack[t]) >= 2
             THEN current_env'[t] = stack[t][Len(stack[t]) - 1].ctx
             ELSE current_env'[t] \notin NamedCtx]_vars

\* C36 (as claimed): a provide call returns a stand-in only when the call's
\* own target is the type the stand-in was installed for; a call for
\* another target never returns it, also when that target resolves to the
\* mocked type.
C36_StandinOnlyForItsTarget ==
    (last.op = "provide" /\ ~last.raised /\ last.val.kind = "mock")
    => last.val.type = last.target

\* C37 (as claimed): in every state, every entry of the singleton cache of
\* every context maps a singleton-marked type to an instance constructed
\* for that type; no stand-in and no name is ever a key or a value of the
\* cache.
C37_CacheHoldsSingletonInstances ==
    \A c \in Ctx, t \in Threads :
        \A k \in DOMAIN state[c][t].singletons :
            /\ k \in Types /\ is_singleton(k)
            /\ state[c][t].singletons[k].kind = "inst"
            /\ state[c][t].singletons[k].type = k

\* C38: a provide call that resolves to a singleton type whose construction
\* raises fails with the wrapped error every time it is made, constructs
\* nothing that stays, and leaves the singleton cache, like the rest of the
\* state of every context, as it was.
C38_FailedSingletonNotCached ==
    [][(/\ last'.op = "provide"
        /\ last'.impl # None
        /\ is_singleton(last'.impl)
        /\ last'.impl \in AbstractTypes)
       => /\ last'.raised
          /\ last'.val = Error("InjectionError", "TypeError")
          /\ state' = state
          /\ \A c \in Ctx, t \in Threads :
                last'.impl \notin DOMAIN state'[c][t].singletons]_vars

C38_Witness ==
    /\ last.op = "provide" /\ last.raised
    /\ last.impl = "AbsSingle"
    /\ last.ctx \in NamedCtx
    /\ "Single" \in DOMAIN state[last.ctx][last.t].singletons

\* C39 (as claimed): reading a field right after the construction that
\* stored the caller's own value in it returns that value and does not
\* raise, whatever the value is, an exception object included.
C39_ReadRaisesOnlyFailures ==
    [][(/\ last.op = "new" /\ ~last.raised
        /\ last'.op = "read"
        /\ last'.target \in DOMAIN last.supplied
        /\ held.val.fields[descriptor(last.target, last'.target)]
              = last.supplied[last'.target])
       => /\ ~last'.raised
          /\ last'.val = last.supplied[last'.target]]_vars

\* the stand-ins installed inside the `with` blocks the thread has open
InstalledInside(t) ==
    {stack[t][i].mocks[k] : <<i, k>> \in
        {p \in (1..Len(stack[t])) \X MockTargets : p[2] \in DOMAIN stack[t][p[1]].mocks}}

\* C40 (as claimed): a stand-in that provide returns inside a `with` block
\* was installed inside one of the blocks the thread has open; a stand-in
\* installed while the thread was inside no block is never returned there.
C40_OutsideMockNeverReturned ==
    (/\ last.op = "provide" /\ ~last.raised
     /\ last.val.kind = "mock"
     /\ stack[last.t] # <<>>)
    => last.val.id \in InstalledInside(last.t)

====
